---- MODULE Spec2Model ----
(***************************************************************************)
(* A model of pydytuesday's TidyTuesdayPy class                            *)
(* (src/src/pydytuesday/__main__.py).                                      *)
(*                                                                         *)
(* One TidyTuesdayPy object is modelled.  Every public method is one       *)
(* action, which runs the whole method against nondeterministic remote     *)
(* responses and leaves a record of the call (arguments, responses         *)
(* consumed, requests issued, returned value or raised exception) in       *)
(* `call`.  The caller then takes the result (Return) and may call again.  *)
(*                                                                         *)
(* Texts that the code matches against ^\d{4}-\d{2}-\d{2}$ or parses with  *)
(* %Y-%m-%d are modelled by their numeric fields: the text "2025-03-11" is *)
(* <<2025, 3, 11>>, and a text of another shape is a tuple of another      *)
(* length.  Python's None is NoneVal for the rate-limit counter.           *)
(***************************************************************************)
EXTENDS Integers, Sequences, FiniteSets, TLC

VARIABLES pc, rate_limit_remaining, staging, call

vars == <<pc, rate_limit_remaining, staging, call>>

----------------------------------------------------------------------------
(* Bounds of the model.                                                    *)

\* largest 'remaining' value the rate-limit endpoint reports
MaxRemaining == 5
\* most data rows in the first table of a rendered readme page
MaxRows == 2
\* most entries in a contents-API directory listing
MaxEntries == 2
\* most staging files that may lie about when a method is called: with more
\* than that left behind, the model makes no further call
MaxLeaked == 0

\* tt_load_gh's budget threshold
RateLimitThreshold == 5

NoneVal == 0 - 1

----------------------------------------------------------------------------
(* datetime: the proleptic Gregorian calendar of Python's datetime module, *)
(* used by strptime, weekday, date - timedelta and strftime.               *)

MINYEAR == 1
MAXYEAR == 9999

IsLeap(y) == (y % 4 = 0) /\ ((y % 100 # 0) \/ (y % 400 = 0))

DaysInMonth(y, m) ==
    IF m = 2 THEN (IF IsLeap(y) THEN 29 ELSE 28)
    ELSE IF m \in {4, 6, 9, 11} THEN 30 ELSE 31

DaysBeforeYear(y) ==
    (y - 1) * 365 + ((y - 1) \div 4) - ((y - 1) \div 100) + ((y - 1) \div 400)

RECURSIVE DaysBeforeMonth(_, _)
DaysBeforeMonth(y, m) ==
    IF m = 1 THEN 0 ELSE DaysBeforeMonth(y, m - 1) + DaysInMonth(y, m - 1)

\* datetime.toordinal: 0001-01-01 is day 1
ToOrdinal(y, m, d) == DaysBeforeYear(y) + DaysBeforeMonth(y, m) + d

\* datetime.fromordinal (CPython's _ord2ymd), as <<year, month, day>>
FromOrdinal(ord) ==
    LET n0   == ord - 1
        n400 == n0 \div 146097
        r400 == n0 % 146097
        n100 == r400 \div 36524
        r100 == r400 % 36524
        n4   == r100 \div 1461
        r4   == r100 % 1461
        n1   == r4 \div 365
        r1   == r4 % 365
        year == n400 * 400 + 1 + n100 * 100 + n4 * 4 + n1
    IN  IF n1 = 4 \/ n100 = 4
        THEN <<year - 1, 12, 31>>
        ELSE LET mguess == (r1 + 50) \div 32
                 pguess == DaysBeforeMonth(year, mguess)
                 month  == IF pguess > r1 THEN mguess - 1 ELSE mguess
                 prec   == DaysBeforeMonth(year, month)
             IN  <<year, month, r1 - prec + 1>>

\* a weekday numbering that starts the week on Sunday (Sunday = 0)
WeekdaySundayFirst(ord) == ord % 7

\* datetime.weekday(): Monday = 0 .. Sunday = 6
Weekday(ord) == (ord + 6) % 7

\* datetime.strptime(text, "%Y-%m-%d"): three numeric fields that name a day
\* of the calendar; anything else raises ValueError
StrptimeOk(text) ==
    /\ Len(text) = 3
    /\ text[1] \in MINYEAR..MAXYEAR
    /\ text[2] \in 1..12
    /\ text[3] \in 1..DaysInMonth(text[1], text[2])

Strptime(text) == ToOrdinal(text[1], text[2], text[3])

\* strftime("%Y-%m-%d")
Strftime(ord) == FromOrdinal(ord)

----------------------------------------------------------------------------
(* last_tuesday                                                            *)

\* the years the reference dates are drawn from: the first year of the
\* calendar, a leap year and the year after it
DateYears == {1, 2024, 2025}

\* texts handed to last_tuesday as a str: every day-shaped text of these
\* years, valid or not (month 0 and 13, day 0 and 32, February 30), and
\* texts of another shape
DateTexts ==
    {<<y, m, d>> : y \in DateYears \cup {0}, m \in 0..13, d \in {0, 1, 2, 15, 28, 29, 30, 31, 32}}
    \cup {<<y, m, d>> : y \in DateYears, m \in {1, 2, 3, 12}, d \in 1..31}
    \cup {<<>>, <<2025>>, <<2025, 3>>}

\* the days a datetime argument, or the New York clock, may name
DateValues == {t \in DateTexts : StrptimeOk(t)}

\* the arguments of last_tuesday: None, a str, a datetime, another type
LastTuesdayArgs ==
    {[type |-> "none", text |-> t] : t \in DateValues}
    \cup {[type |-> "str", text |-> t] : t \in DateTexts}
    \cup {[type |-> "datetime", text |-> t] : t \in DateValues}
    \cup {[type |-> "int", text |-> <<>>]}

\* the offset without the reduction modulo 7
DaysSinceTuesdayNoMod(ord) == Weekday(ord) - 1

\* line 81
DaysSinceTuesday(ord) == (Weekday(ord) - 1) % 7

\* lines 58-84: the value returned, or the exception raised
LastTuesday(date) ==
    IF date.type = "str" /\ ~StrptimeOk(date.text)
    THEN [result |-> <<>>, raised |-> "ValueError"]
    ELSE IF date.type \notin {"none", "str", "datetime"}
    THEN [result |-> <<>>, raised |-> "TypeError"]
    ELSE LET date_obj  == Strptime(date.text)
             last_tues == date_obj - DaysSinceTuesday(date_obj)
         IN  IF last_tues < ToOrdinal(MINYEAR, 1, 1)
             THEN [result |-> <<>>, raised |-> "OverflowError"]
             ELSE [result |-> Strftime(last_tues), raised |-> "none"]

----------------------------------------------------------------------------
(* The remote side: what a request may be answered with.  A response is    *)
(* [kind, body]: kind "neterr" is a transport failure (the request raises  *)
(* a RequestException), "status" a non-200 answer, "ok" a 200 answer.      *)

NetErr == [kind |-> "neterr", body |-> <<>>]
BadStatus == [kind |-> "status", body |-> <<>>]
Unused == [kind |-> "unused", body |-> <<>>]
Ok(body) == [kind |-> "ok", body |-> body]

\* sequences over S of length lo..hi
SeqsBetween(S, lo, hi) == UNION {[1..n -> S] : n \in lo..hi}

\* the entries of a sequence are pairwise different in the field `name`
DistinctNames(items) ==
    \A i, j \in 1..Len(items) : items[i].name = items[j].name => i = j

\* GET https://api.github.com/rate_limit: a RequestException (no answer, or
\* an HTTP error raised by raise_for_status), or 'remaining'
RateResponses ==
    {NetErr} \cup {Ok(n) : n \in 0..MaxRemaining}

\* a failed check read as an exhausted budget
UpdateRateLimitZeroOnFailure(resp) ==
    IF resp.kind = "ok" THEN resp.body ELSE 0

\* lines 29-38: the counter after _update_rate_limit
UpdateRateLimit(resp) ==
    IF resp.kind = "ok" THEN resp.body ELSE NoneVal

\* an outcome's `rate` when the method has not refreshed the counter
KeepRate == 0 - 2

----------------------------------------------------------------------------
(* tt_datasets                                                             *)

Years == {2024, 2025}

\* names of release directories, and date cells of the readme table
ReleaseDates == {<<2025, 1, 7>>, <<2025, 1, 14>>}

\* re.match(r"^\d{4}-\d{2}-\d{2}$", text): three numeric fields of widths
\* 4, 2 and 2
MatchesDatePattern(text) ==
    /\ Len(text) = 3
    /\ text[1] \in 0..9999
    /\ text[2] \in 0..99
    /\ text[3] \in 0..99

\* the rows of a readme table, as the texts of their cells: a row of two
\* cells, a row whose date cell is not a date, and a full row per release
TableRows ==
    {<<1, <<2025, 1, 7>>>>, <<1, <<>>, "A">>}
    \cup {<<1, d, "A">> : d \in ReleaseDates}

\* the first row of a table: a header, or (a table without one) a full row
HeaderRows == {<<0, <<>>, "Title">>, <<1, <<2025, 1, 7>>, "A">>}

\* a table is its rows, the first row first; it may have no row at all
Tables ==
    {<<>>} \cup {<<h>> \o rows : h \in HeaderRows,
                                 rows \in SeqsBetween(TableRows, 0, MaxRows)}

\* the rendered readme page: a failure, a non-200 page, a page without a
\* table, a page whose first table is t
PageResponses ==
    {NetErr, BadStatus, Ok(<<>>)} \cup {Ok(<<t>>) : t \in Tables}

\* entries of a contents-API listing
DirItems ==
    {[name |-> n, type |-> "dir"] : n \in ReleaseDates \cup {<<>>}}
    \cup {[name |-> <<2025, 1, 7>>, type |-> "file"]}

\* GET .../contents/data/{year}: a failure, an HTTP error, a listing
YearListings ==
    {NetErr, BadStatus}
    \cup {Ok(l) : l \in {x \in SeqsBetween(DirItems, 0, MaxEntries) : DistinctNames(x)}}

Dataset(year, date, title) ==
    [date |-> date, title |-> title, path |-> <<year, date>>]

\* str < str on two date-shaped texts: digit strings of equal widths compare
\* field by field
DateLess(a, b) ==
    \/ a[1] < b[1]
    \/ a[1] = b[1] /\ a[2] < b[2]
    \/ a[1] = b[1] /\ a[2] = b[2] /\ a[3] < b[3]

\* the entry goes behind the entries that are not greater (a stable insert)
RECURSIVE InsertByDate(_, _)
InsertByDate(sorted, x) ==
    IF sorted = <<>> THEN <<x>>
    ELSE IF DateLess(x.date, sorted[Len(sorted)].date)
    THEN Append(InsertByDate(SubSeq(sorted, 1, Len(sorted) - 1), x), sorted[Len(sorted)])
    ELSE Append(sorted, x)

\* a list left in the order it was collected in
Unsorted(datasets) == datasets

\* line 226: datasets.sort(key=lambda x: x["date"])
RECURSIVE SortByDate(_)
SortByDate(datasets) ==
    IF datasets = <<>> THEN <<>>
    ELSE InsertByDate(SortByDate(SubSeq(datasets, 1, Len(datasets) - 1)),
                      datasets[Len(datasets)])

\* lines 171-186: the entries of the rows from index `i` on
RECURSIVE RowsFrom(_, _, _)
RowsFrom(year, rows, i) ==
    IF i > Len(rows) THEN <<>>
    ELSE LET cells == rows[i]
         IN  IF Len(cells) >= 3 /\ MatchesDatePattern(cells[2])
             THEN <<Dataset(year, cells[2], cells[3])>> \o RowsFrom(year, rows, i + 1)
             ELSE RowsFrom(year, rows, i + 1)

\* lines 155-186: the entries Tier 1 finds in the page it was answered with
Tier1Rows(year, page) ==
    IF page.kind # "ok" \/ page.body = <<>> THEN <<>>
    ELSE RowsFrom(year, page.body[1], 2)

\* lines 194-204 and 212-223: the entries of a directory listing from `i` on
RECURSIVE FoldersFrom(_, _, _)
FoldersFrom(year, items, i) ==
    IF i > Len(items) THEN <<>>
    ELSE IF items[i].type = "dir" /\ MatchesDatePattern(items[i].name)
    THEN <<Dataset(year, items[i].name, "Unknown")>> \o FoldersFrom(year, items, i + 1)
    ELSE FoldersFrom(year, items, i + 1)

\* what a method leaves: the value returned or the exception raised, the
\* requests issued in order, the responses consumed, the counter, and the
\* staging files left on disk
Outcome(result, raised, reqs, env, rate, leaked) ==
    [result |-> result, raised |-> raised, reqs |-> reqs, env |-> env,
     rate |-> rate, leaked |-> leaked]

DatasetsEnv(rl, main, master, api) ==
    [rate |-> rl, main |-> main, master |-> master, api |-> api]

\* lines 190-204 and 208-223, then 226-238: Tier 2 and the way out
Tier2Outcomes(year, rate, reqs, rl, main, master) ==
    {LET env == DatasetsEnv(rl, main, master, api)
     IN  IF api.kind = "ok"
         THEN Outcome(SortByDate(FoldersFrom(year, api.body, 1)), "none",
                      Append(reqs, "api_year"), env, rate, 0)
         ELSE Outcome(<<>>, "none", Append(reqs, "api_year"), env, rate, 0)
     : api \in YearListings}

\* Tier 2 asked for whatever Tier 1 found
AfterTier1Always(year, rate, reqs, rl, main, master, page) ==
    Tier2Outcomes(year, rate, reqs, rl, main, master)

\* lines 155-204, 226-234: the page Tier 1 ends with has been received
AfterTier1(year, rate, reqs, rl, main, master, page) ==
    LET datasets == Tier1Rows(year, page)
    IN  IF datasets = <<>>
        THEN Tier2Outcomes(year, rate, reqs, rl, main, master)
        ELSE {Outcome(SortByDate(datasets), "none", reqs,
                      DatasetsEnv(rl, main, master, Unused), rate, 0)}

\* a guard that stops only below zero
BudgetExhaustedNever(remaining) == remaining # NoneVal /\ remaining < 0

\* lines 95 and 137: remaining is not None and remaining == 0
BudgetExhausted(remaining) == remaining # NoneVal /\ remaining = 0

\* the answers one call of tt_datasets consumes: <<budget check, main page,
\* master page>>, Unused for a request that is not issued
DatasetsPaths ==
    {<<Ok(0), Unused, Unused>>}
    \cup {<<rl, main, Unused>> : rl \in RateResponses \ {Ok(0)},
                                main \in PageResponses \ {BadStatus}}
    \cup {<<rl, BadStatus, master>> : rl \in RateResponses \ {Ok(0)},
                                     master \in PageResponses}

\* lines 125-238: every way tt_datasets(year) can go on these answers
TtDatasetsWith(year, rl, main, master) ==
    LET rate  == UpdateRateLimit(rl)
        reqs1 == <<"rate_limit", "html_main">>
        reqs2 == <<"rate_limit", "html_main", "html_master">>
    IN  IF BudgetExhausted(rate)
        THEN {Outcome(<<>>, "none", <<"rate_limit">>,
                      DatasetsEnv(rl, Unused, Unused, Unused), rate, 0)}
        ELSE IF main.kind = "neterr"
        THEN Tier2Outcomes(year, rate, reqs1, rl, main, Unused)
        ELSE IF main.kind = "ok"
        THEN AfterTier1(year, rate, reqs1, rl, main, Unused, main)
        ELSE IF master.kind = "neterr"
        THEN Tier2Outcomes(year, rate, reqs2, rl, main, master)
        ELSE AfterTier1(year, rate, reqs2, rl, main, master, master)

\* a call made from inside another method: what the calling method sees of
\* it (the value, the requests it issued, the counter it left)
Nested(outcomes) == {[o EXCEPT !.env = <<>>] : o \in outcomes}

NestedDatasets ==
    [year \in Years |->
        UNION {Nested(TtDatasetsWith(year, p[1], p[2], p[3])) : p \in DatasetsPaths}]

----------------------------------------------------------------------------
(* tt_available                                                            *)

\* entries of the listing of the data directory: year directories and a file
RootItems ==
    {[name |-> y, type |-> "dir"] : y \in Years}
    \cup {[name |-> 2025, type |-> "file"]}

\* GET .../contents/data: a failure, an HTTP error, a listing
RootListings ==
    {NetErr, BadStatus}
    \cup {Ok(l) : l \in {x \in SeqsBetween(RootItems, 0, MaxEntries) : DistinctNames(x)}}

\* line 103: the names of the directories, in listing order
RECURSIVE DirNamesFrom(_, _)
DirNamesFrom(items, i) ==
    IF i > Len(items) THEN <<>>
    ELSE IF items[i].type = "dir"
    THEN <<items[i].name>> \o DirNamesFrom(items, i + 1)
    ELSE DirNamesFrom(items, i + 1)

\* lines 105-108: tt_datasets for each year from `i` on; the mapping is the
\* sequence of its <<year, datasets>> pairs in insertion order
RECURSIVE YearsLoop(_, _)
YearsLoop(years, i) ==
    IF i > Len(years)
    THEN {[all |-> <<>>, reqs |-> <<>>, rate |-> KeepRate]}
    ELSE LET rests == YearsLoop(years, i + 1)
         IN  {[all  |-> <<<<years[i], o.result>>>> \o rest.all,
               reqs |-> o.reqs \o rest.reqs,
               rate |-> IF rest.rate = KeepRate THEN o.rate ELSE rest.rate]
              : o \in NestedDatasets[years[i]], rest \in rests}

\* the loop, for every list of year directories a listing can hold
YearLists == {DirNamesFrom(root.body, 1) : root \in {r \in RootListings : r.kind = "ok"}}
YearsLoops == [years \in YearLists |-> YearsLoop(years, 1)]

AvailableEnv(rl, root) == [rate |-> rl, root |-> root]

\* lines 87-122: every way tt_available() can go when the budget check is
\* answered with `rl` and the listing of the data directory, if it is asked
\* for, with `root`
TtAvailableWith(rl, root) ==
    LET rate == UpdateRateLimit(rl)
    IN  IF BudgetExhausted(rate)
        THEN {Outcome(<<>>, "none", <<"rate_limit">>,
                      AvailableEnv(rl, Unused), rate, 0)}
        ELSE IF root.kind # "ok"
        THEN {Outcome(<<>>, "none", <<"rate_limit", "api_root">>,
                      AvailableEnv(rl, root), rate, 0)}
        ELSE {Outcome(l.all, "none", <<"rate_limit", "api_root">> \o l.reqs,
                      AvailableEnv(rl, root),
                      IF l.rate = KeepRate THEN rate ELSE l.rate, 0)
              : l \in YearsLoops[DirNamesFrom(root.body, 1)]}

----------------------------------------------------------------------------
(* tt_load_gh                                                              *)

\* a file name is <<base, extension>>, as os.path.splitext splits it
FileName(base, ext) == <<base, ext>>

\* str.lower() on the texts file names are made of
Lower(text) ==
    CASE text = "README" -> "readme"
      [] text = "A" -> "a"
      [] text = ".CSV" -> ".csv"
      [] OTHER -> text

\* name.lower().startswith("readme")
StartsWithReadme(name) == Lower(name[1]) = "readme"

\* entries of the listing of a release directory
WeekItems ==
    {[name |-> FileName("a", ".csv"), type |-> "file"],
     [name |-> FileName("README", ".md"), type |-> "file"],
     [name |-> FileName("sub", ""), type |-> "dir"]}

\* listings with a file whose base name is a key of the metadata
MetadataNamedListings ==
    {<<[name |-> FileName("date", ".csv"), type |-> "file"]>>,
     <<[name |-> FileName("a", ".csv"), type |-> "file"],
       [name |-> FileName("date", ".csv"), type |-> "file"]>>}

\* GET .../contents/data/{year}/{date}: a failure, a non-200, a listing
WeekListings ==
    {NetErr, BadStatus}
    \cup {Ok(l) : l \in {x \in SeqsBetween(WeekItems, 0, MaxEntries) : DistinctNames(x)}}
    \cup {Ok(l) : l \in MetadataNamedListings}

\* GET raw .../README.md: a failure, a non-200, the text
ReadmeResponses == {NetErr, BadStatus, Ok("# Title")}

\* the arguments: a year and a week (an int, or the str the command line
\* hands over), or a date and no week
NoWeek == [type |-> "none", n |-> 0]
WeekArgs ==
    {[type |-> "int", n |-> n] : n \in (0 - 1)..(MaxRows + 1)}
    \cup {[type |-> "str", n |-> 1]}
LoadYears == {2025}
LoadGhArgs ==
    {[date_or_year |-> <<y>>, week |-> w] : y \in LoadYears, w \in WeekArgs}
    \cup {[date_or_year |-> d, week |-> NoWeek] : d \in ReleaseDates \cup {<<2025>>}}

FileRef(year, date, name) ==
    [name |-> name, download_url |-> <<"raw", year, date, name>>,
     path |-> <<year, date, name>>]

\* lines 287-293: the file references of the items from `i` on
RECURSIVE FilesFrom(_, _, _, _)
FilesFrom(year, date, items, i) ==
    IF i > Len(items) THEN <<>>
    ELSE IF items[i].type = "file" /\ ~StartsWithReadme(items[i].name)
    THEN <<FileRef(year, date, items[i].name)>> \o FilesFrom(year, date, items, i + 1)
    ELSE FilesFrom(year, date, items, i + 1)

\* lines 528-556: the markdown rendering wrapped in the page template
MarkdownToHtml(text) == <<"<!DOCTYPE html>", text>>

EmptyDict == <<>>

LoadGhEnv(rl, datasets, listing, main, master) ==
    [rate |-> rl, datasets |-> datasets, listing |-> listing,
     readme_main |-> main, readme_master |-> master]

NoDatasets == [called |-> FALSE, result |-> <<>>]
WithDatasets(o) == [called |-> TRUE, result |-> o.result]

Metadata(year, date, files, readme_content) ==
    [date |-> date, year |-> year, files |-> files,
     readme_content |-> readme_content,
     readme_html |-> MarkdownToHtml(readme_content)]

\* lines 276-319: the release `date` of `year` is known; `reqs` and `rate`
\* are the requests issued and the counter so far
LoadRelease(year, date, rl, ds, reqs, rate) ==
    UNION {
      LET reqs1 == Append(reqs, "api_week")
      IN  IF listing.kind # "ok"
          THEN {Outcome(EmptyDict, "none", reqs1,
                        LoadGhEnv(rl, ds, listing, Unused, Unused), rate, 0)}
          ELSE LET files == FilesFrom(year, date, listing.body, 1)
                   reqs2 == Append(reqs1, "readme_main")
                   reqs3 == Append(reqs2, "readme_master")
               IN UNION {
                 IF main.kind = "neterr"
                 THEN {Outcome(EmptyDict, "none", reqs2,
                               LoadGhEnv(rl, ds, listing, main, Unused), rate, 0)}
                 ELSE IF main.kind = "ok"
                 THEN {Outcome(Metadata(year, date, files, main.body), "none", reqs2,
                               LoadGhEnv(rl, ds, listing, main, Unused), rate, 0)}
                 ELSE {IF master.kind = "neterr"
                       THEN Outcome(EmptyDict, "none", reqs3,
                                    LoadGhEnv(rl, ds, listing, main, master), rate, 0)
                       ELSE Outcome(Metadata(year, date, files,
                                             IF master.kind = "ok" THEN master.body ELSE ""),
                                    "none", reqs3,
                                    LoadGhEnv(rl, ds, listing, main, master), rate, 0)
                       : master \in ReadmeResponses}
                 : main \in ReadmeResponses}
      : listing \in WeekListings}

\* a guard that stops only an exhausted budget
BudgetTooLowAtZero(remaining) ==
    IF remaining = NoneVal THEN "TypeError" ELSE IF remaining < 1 THEN "yes" ELSE "no"

\* line 251: rate_limit_check(quiet=True) < 5; None < 5 raises TypeError
BudgetTooLow(remaining) ==
    IF remaining = NoneVal THEN "TypeError"
    ELSE IF remaining < RateLimitThreshold THEN "yes" ELSE "no"

\* line 265
WeekOutOfRange(week, datasets) == week < 1 \/ week > Len(datasets)

\* lines 257-270: the week is resolved against tt_datasets' answer `o`
LoadWeek(year, week, rl, rate0, o) ==
    LET reqs == <<"rate_limit">> \o o.reqs
        rate == IF o.rate = KeepRate THEN rate0 ELSE o.rate
        ds   == WithDatasets(o)
        stop == {Outcome(EmptyDict, "none", reqs,
                         LoadGhEnv(rl, ds, Unused, Unused, Unused), rate, 0)}
    IN  IF o.result = <<>> THEN stop
        ELSE IF week.type # "int" THEN stop
        ELSE IF WeekOutOfRange(week.n, o.result) THEN stop
        ELSE LoadRelease(year, o.result[week.n].date, rl, ds, reqs, rate)

\* line 260: the ways the call of tt_datasets can go, if it is made (if it
\* is not, one way stands for all)
NestedFor(arg, rl) ==
    IF BudgetTooLow(UpdateRateLimit(rl)) = "no" /\ arg.week.type # "none"
    THEN NestedDatasets[arg.date_or_year[1]]
    ELSE {Outcome(<<>>, "none", <<>>, <<>>, KeepRate, 0)}

\* lines 240-319: every way tt_load_gh(date_or_year, week) can go when the
\* budget check is answered with `rl` and tt_datasets, if called, goes as `o`
TtLoadGhWith(arg, rl, o) ==
    LET rate == UpdateRateLimit(rl)
        low  == BudgetTooLow(rate)
    IN  IF low = "TypeError"
        THEN {Outcome(EmptyDict, "TypeError", <<"rate_limit">>,
                      LoadGhEnv(rl, NoDatasets, Unused, Unused, Unused), rate, 0)}
        ELSE IF low = "yes"
        THEN {Outcome(EmptyDict, "none", <<"rate_limit">>,
                      LoadGhEnv(rl, NoDatasets, Unused, Unused, Unused), rate, 0)}
        ELSE IF arg.week.type # "none"
        THEN LoadWeek(arg.date_or_year[1], arg.week, rl, rate, o)
        ELSE LoadRelease(arg.date_or_year[1], arg.date_or_year, rl, NoDatasets,
                         <<"rate_limit">>, rate)

----------------------------------------------------------------------------
(* tt_download_file and tt_download                                        *)

\* most files in the metadata handed to tt_download_file and tt_download
MaxFiles == 2

\* the file names of a release that are combined freely, and those that
\* stand alone in a release, one per branch of the format dispatch
CoreNames ==
    {FileName("a", ".csv"), FileName("a", ".json"),
     FileName("b", ".parquet"), FileName("c", ".xyz")}
LoneNames ==
    {FileName("A", ".CSV"), FileName("d", ".tsv"), FileName("e", ".xls"),
     FileName("f", ".xlsx"), FileName("g", "")}
MissingName == FileName("missing", ".csv")

InjectiveSeq(q) == \A i, j \in 1..Len(q) : q[i] = q[j] => i = j

FileLists ==
    {q \in SeqsBetween(CoreNames, 0, MaxFiles) : InjectiveSeq(q)}
    \cup {<<n>> : n \in LoneNames}

RefsOf(names) == [i \in 1..Len(names) |-> FileRef(<<2025>>[1], <<2025, 1, 7>>, names[i])]

\* the tt_data argument: an empty dict, a dict without "files" (what tt_load
\* returns), or the metadata of a release
TtDataValues ==
    {EmptyDict, [readme_html |-> MarkdownToHtml("")]}
    \cup {Metadata(2025, <<2025, 1, 7>>, RefsOf(q), "") : q \in FileLists}

\* not tt_data or "files" not in tt_data
InvalidTtData(tt_data) == tt_data = EmptyDict \/ "files" \notin DOMAIN tt_data

\* what happens to one file: the download, the write to the staging file,
\* the parse.  A step that is not reached is "unused".
FileEnv(download, write, parse) ==
    [download |-> download, write |-> write, parse |-> parse]

FileEnvs(format) ==
    {FileEnv("neterr", "unused", "unused"), FileEnv("status", "unused", "unused"),
     FileEnv("ok", "OSError", "unused")}
    \cup (IF format = "unsupported"
          THEN {FileEnv("ok", "ok", "unused")}
          ELSE {FileEnv("ok", "ok", p) : p \in {"ok", "ParserError", "ValueError"}})

\* lines 358, 364-377: the branch taken for file_name = name.lower()
FileFormat(name) ==
    LET ext == Lower(name[2])
    IN  CASE ext = ".csv" -> "csv"
          [] ext = ".tsv" -> "tsv"
          [] ext \in {".xls", ".xlsx"} -> "excel"
          [] ext = ".json" -> "json"
          [] ext = ".parquet" -> "parquet"
          [] OTHER -> "unsupported"

\* the batch dispatch with a parquet branch
BatchFormatWithParquet(name) == FileFormat(name)

\* lines 443-455: the branch tt_download takes; it has none for .parquet
BatchFormat(name) ==
    IF FileFormat(name) = "parquet" THEN "unsupported" ELSE FileFormat(name)

\* the table a parser returns for a staged file
Table(name, format) == [file |-> name, format |-> format]
EmptyTable == <<>>

\* an int, or a str, naming the file
FileIdentifiers ==
    {[type |-> "int", n |-> n, name |-> MissingName] : n \in (0 - 1)..MaxFiles}
    \cup {[type |-> "str", n |-> 0, name |-> nm] : nm \in CoreNames \cup {MissingName}}

\* next((f for f in files if f["name"] == name), None): the index, or 0
FirstNamed(files, name) ==
    IF \E i \in 1..Len(files) : files[i].name = name
    THEN CHOOSE i \in 1..Len(files) :
            /\ files[i].name = name
            /\ \A j \in 1..(i - 1) : files[j].name # name
    ELSE 0

\* lines 339-351: the 1-based index of the file meant, or 0
ResolveIdentifier(files, id) ==
    IF id.type = "int"
    THEN (IF id.n < 0 \/ id.n >= Len(files) THEN 0 ELSE id.n + 1)
    ELSE FirstNamed(files, id.name)

\* lines 359-361, 378-379 and 438-440, 465-467: staging files left by one
\* file: the file is created, and unlinked only once the write has passed
Leaked(e) == IF e.download = "ok" /\ e.write # "ok" THEN 1 ELSE 0

\* lines 353-392: the file is known; what the call comes to under `e`
DownloadOne(file_info, e) ==
    LET format == FileFormat(file_info.name)
        out(result, raised) ==
            Outcome(result, raised, <<"download">>, <<e>>, KeepRate, Leaked(e))
    IN  IF e.download # "ok" THEN out(EmptyTable, "none")
        ELSE IF e.write # "ok" THEN out(EmptyTable, e.write)
        ELSE IF format = "unsupported" THEN out(EmptyTable, "none")
        ELSE IF e.parse = "ok" THEN out(Table(file_info.name, format), "none")
        ELSE IF e.parse = "ParserError" THEN out(EmptyTable, "none")
        ELSE out(EmptyTable, e.parse)

\* lines 321-392: every way tt_download_file(tt_data, file_identifier) can go
TtDownloadFile(tt_data, id) ==
    IF InvalidTtData(tt_data)
    THEN {Outcome(EmptyTable, "none", <<>>, <<>>, KeepRate, 0)}
    ELSE LET k == ResolveIdentifier(tt_data.files, id)
         IN  IF k = 0
             THEN {Outcome(EmptyTable, "none", <<>>, <<>>, KeepRate, 0)}
             ELSE {DownloadOne(tt_data.files[k], e)
                   : e \in FileEnvs(FileFormat(tt_data.files[k].name))}

\* the files argument: "All", one name, or a list of names
FilesArgs ==
    {[type |-> "all", names |-> <<>>]}
    \cup {[type |-> "str", names |-> <<n>>] : n \in {FileName("a", ".csv"), MissingName}}
    \cup {[type |-> "list", names |-> q]
          : q \in SeqsBetween({FileName("a", ".csv"), FileName("c", ".xyz"), MissingName},
                              0, 2)}

\* lines 412-424: files_to_download, from the name at `i` on
RECURSIVE Selected(_, _, _)
Selected(available, names, i) ==
    IF i > Len(names) THEN <<>>
    ELSE LET k == FirstNamed(available, names[i])
         IN  IF k = 0 THEN Selected(available, names, i + 1)
             ELSE <<available[k]>> \o Selected(available, names, i + 1)

FilesToDownload(tt_data, files) ==
    IF files.type = "all" THEN tt_data.files
    ELSE Selected(tt_data.files, files.names, 1)

\* result[key] = df on a dict kept as its <<key, value>> pairs in insertion
\* order
DictPut(dict, key, value) ==
    IF \E i \in 1..Len(dict) : dict[i][1] = key
    THEN [i \in 1..Len(dict) |-> IF dict[i][1] = key THEN <<key, value>> ELSE dict[i]]
    ELSE Append(dict, <<key, value>>)

\* lines 427-473: the loop from file `i` on; `result`, `reqs` and `envs` are
\* what the files before it left
RECURSIVE DownloadLoop(_, _, _, _, _)
DownloadLoop(files, i, result, reqs, envs) ==
    IF i > Len(files)
    THEN {Outcome(result, "none", reqs, envs, KeepRate, 0)}
    ELSE UNION {
      LET name   == files[i].name
          format == BatchFormat(name)
          reqs1  == Append(reqs, "download")
          envs1  == Append(envs, e)
      IN  IF e.download = "neterr"
          THEN {Outcome(EmptyDict, "none", reqs1, envs1, KeepRate, 0)}
          ELSE IF e.download = "status"
          THEN DownloadLoop(files, i + 1, result, reqs1, envs1)
          ELSE IF e.write # "ok"
          THEN {Outcome(EmptyDict, "none", reqs1, envs1, KeepRate, Leaked(e))}
          ELSE IF format = "unsupported" \/ e.parse # "ok"
          THEN DownloadLoop(files, i + 1, result, reqs1, envs1)
          ELSE DownloadLoop(files, i + 1,
                            DictPut(result, name[1], Table(name, format)),
                            reqs1, envs1)
      : e \in FileEnvs(BatchFormat(files[i].name))}

\* lines 394-473: every way tt_download(tt_data, files) can go
TtDownload(tt_data, files) ==
    IF InvalidTtData(tt_data)
    THEN {Outcome(EmptyDict, "none", <<>>, <<>>, KeepRate, 0)}
    ELSE DownloadLoop(FilesToDownload(tt_data, files), 1, <<>>, <<>>, <<>>)

----------------------------------------------------------------------------
(* tt_load                                                                 *)

\* the arguments of tt_load: a date, or a year and a week (an int, or the
\* str the command line hands over), and the files wanted
LoadArgs ==
    {[date_or_year |-> <<2025, 1, 7>>, week |-> NoWeek, files |-> f]
        : f \in {[type |-> "all", names |-> <<>>],
                 [type |-> "str", names |-> <<FileName("a", ".csv")>>]}}
    \cup {[date_or_year |-> <<2025>>, week |-> [type |-> "str", n |-> 1],
           files |-> [type |-> "all", names |-> <<>>]]}

GhArg(arg) == [date_or_year |-> arg.date_or_year, week |-> arg.week]

\* the arguments tt_load hands to tt_load_gh, in the method's calls and in
\* those of get_week, where the week is an int
GhArgs ==
    {GhArg(arg) : arg \in LoadArgs}
    \cup {[date_or_year |-> <<2025>>, week |-> [type |-> "int", n |-> 1]]}

\* line 489: what the call of tt_load_gh leaves to tt_load: the value
\* returned, the exception, the requests issued and the counter, with the
\* answer to its budget check and what its call of tt_datasets returned
GhStep(g) ==
    [result |-> g.result, raised |-> g.raised, reqs |-> g.reqs, rate |-> g.rate,
     budget |-> g.env.rate, datasets |-> g.env.datasets]

GhSteps ==
    [a \in GhArgs |->
        UNION {UNION {{GhStep(g) : g \in TtLoadGhWith(a, rl, o)} : o \in NestedFor(a, rl)}
               : rl \in RateResponses}]

LoadEnv(g, files) ==
    [tt_data |-> g.result, budget |-> g.budget, datasets |-> g.datasets, files |-> files]

\* {..., **data}: the entries of `data` are put, in order, into `dict`
RECURSIVE DictUpdate(_, _, _)
DictUpdate(dict, data, i) ==
    IF i > Len(data) THEN dict
    ELSE DictUpdate(DictPut(dict, data[i][1], data[i][2]), data, i + 1)

\* a metadata value as an entry of the combined dict
Field(value) == [value |-> value]

\* lines 498-504: the four metadata entries, then the tables by their keys
Combined(tt_data, data) ==
    DictUpdate(<<<<"date", Field(tt_data.date)>>, <<"year", Field(tt_data.year)>>,
                 <<"readme_content", Field(tt_data.readme_content)>>,
                 <<"readme_html", Field(tt_data.readme_html)>>>>,
               data, 1)

\* lines 475-506: every way tt_load can go once tt_load_gh has gone as `g`
TtLoadAfter(g, files) ==
    IF g.raised # "none"
    THEN {Outcome(EmptyDict, g.raised, g.reqs, LoadEnv(g, <<>>), g.rate, 0)}
    ELSE IF g.result = EmptyDict
    THEN {Outcome(EmptyDict, "none", g.reqs, LoadEnv(g, <<>>), g.rate, 0)}
    ELSE {Outcome(Combined(g.result, d.result), "none", g.reqs \o d.reqs,
                  LoadEnv(g, d.env), g.rate, d.leaked)
          : d \in TtDownload(g.result, files)}

----------------------------------------------------------------------------
(* readme                                                                  *)

\* the tt_data argument of readme: nothing, metadata, a dict without the
\* rendering
ReadmeArgs ==
    {EmptyDict, [date |-> <<2025, 1, 7>>],
     Metadata(2025, <<2025, 1, 7>>, <<>>, "# Title")}

\* lines 508-525: the page is written to a temporary file (`write` says how
\* that went) and opened in the browser
Readme(tt_data, write) ==
    IF tt_data = EmptyDict \/ "readme_html" \notin DOMAIN tt_data
    THEN Outcome(<<>>, "none", <<>>, <<>>, KeepRate, 0)
    ELSE Outcome(<<>>, IF write = "ok" THEN "none" ELSE write, <<>>, <<write>>,
                 KeepRate, 0)

----------------------------------------------------------------------------
(* The module-level functions: each constructs an object and calls the     *)
(* method of its name on it.                                               *)

\* an argument as Python sees it: its type and its text
Value(type, text) == [type |-> type, text |-> text]
StrValue(text) == Value("str", text)
IntValue(text) == Value("int", text)

\* the metadata dict a caller passes on, named "release"
ReleaseDict == Value("dict", "release")
DataOf(value) ==
    Metadata(2025, <<2025, 1, 7>>, RefsOf(<<FileName("a", ".csv")>>), "# Title")

\* the numeric fields of the text of a date or a year
TextOf(text) ==
    CASE text = "2025-01-07" -> <<2025, 1, 7>>
      [] text = "2025" -> <<2025>>
      [] OTHER -> <<>>

\* the number a text of digits spells
IntOf(text) ==
    CASE text = "0" -> 0
      [] text = "1" -> 1
      [] text = "2025" -> 2025
      [] OTHER -> 0

\* os.path.splitext on the text of a file name
NameOf(text) ==
    CASE text = "a.csv" -> FileName("a", ".csv")
      [] OTHER -> FileName(text, "")

\* "files" in tt_data, for a str
MentionsFiles(text) == text = "{'files': []}"

\* the arguments as the methods' models take them
DateArg(args) ==
    IF args = <<>> THEN {[type |-> "none", text |-> t] : t \in {<<2025, 3, 10>>, <<2025, 3, 11>>}}
    ELSE {[type |-> args[1].type, text |-> TextOf(args[1].text)]}
WeekArg(args, i) ==
    IF Len(args) < i THEN NoWeek ELSE [type |-> args[i].type, n |-> IntOf(args[i].text)]
FilesArg(args, i) ==
    IF Len(args) < i \/ args[i].text = "All" THEN [type |-> "all", names |-> <<>>]
    ELSE [type |-> "str", names |-> <<NameOf(args[i].text)>>]
IdentifierArg(value) ==
    IF value.type = "int"
    THEN [type |-> "int", n |-> IntOf(value.text), name |-> MissingName]
    ELSE [type |-> "str", n |-> 0, name |-> NameOf(value.text)]

\* lines 561-627: the signatures: fewest and most positional arguments
Arity ==
    [last_tuesday |-> <<0, 1>>, tt_available |-> <<0, 0>>, tt_datasets |-> <<1, 1>>,
     tt_load_gh |-> <<1, 2>>, tt_download_file |-> <<2, 2>>, tt_download |-> <<1, 2>>,
     tt_load |-> <<1, 3>>, readme |-> <<1, 1>>, rate_limit_check |-> <<0, 1>>,
     get_date |-> <<1, 1>>, get_week |-> <<2, 2>>]

FunctionNames == DOMAIN Arity

\* the name a call of the function goes by in `call`
FunctionOp ==
    [last_tuesday |-> "pydytuesday.last_tuesday", tt_available |-> "pydytuesday.tt_available",
     tt_datasets |-> "pydytuesday.tt_datasets", tt_load_gh |-> "pydytuesday.tt_load_gh",
     tt_download_file |-> "pydytuesday.tt_download_file",
     tt_download |-> "pydytuesday.tt_download", tt_load |-> "pydytuesday.tt_load",
     readme |-> "pydytuesday.readme", rate_limit_check |-> "pydytuesday.rate_limit_check",
     get_date |-> "pydytuesday.get_date", get_week |-> "pydytuesday.get_week"]

\* the calls made from Python code and, with str arguments only, from the
\* command line
FunctionCalls ==
    {[name |-> "last_tuesday", args |-> a]
        : a \in {<<>>, <<StrValue("2025-01-07")>>, <<StrValue("2025")>>, <<IntValue("1")>>}}
    \cup {[name |-> "tt_available", args |-> <<>>]}
    \cup {[name |-> "tt_datasets", args |-> a] : a \in {<<StrValue("2025")>>, <<IntValue("2025")>>}}
    \cup {[name |-> "tt_load_gh", args |-> a]
        : a \in {<<StrValue("2025-01-07")>>, <<StrValue("2025"), StrValue("1")>>, <<IntValue("2025"), IntValue("1")>>}}
    \cup {[name |-> "tt_download_file", args |-> a]
        : a \in {<<ReleaseDict, IntValue("0")>>, <<StrValue("{}"), StrValue("0")>>,
                 <<StrValue("{'files': []}"), StrValue("0")>>}}
    \cup {[name |-> "tt_download", args |-> a]
        : a \in {<<ReleaseDict>>, <<StrValue("{}")>>, <<StrValue("{'files': []}"), StrValue("All")>>}}
    \cup {[name |-> "tt_load", args |-> a]
        : a \in {<<StrValue("2025-01-07")>>, <<StrValue("2025"), StrValue("1")>>,
                 <<StrValue("2025"), StrValue("1"), StrValue("All")>>}}
    \cup {[name |-> "readme", args |-> a] : a \in {<<ReleaseDict>>, <<StrValue("{}")>>}}
    \cup {[name |-> "rate_limit_check", args |-> a] : a \in {<<>>, <<StrValue("True")>>}}
    \cup {[name |-> "get_date", args |-> <<StrValue("2025-01-07")>>]}
    \cup {[name |-> "get_week", args |-> a]
        : a \in {<<StrValue("2025"), StrValue("1")>>, <<IntValue("2025"), IntValue("1")>>}}

\* the answers to the listing of the data directory in these calls
FunctionRoots == {r \in RootListings : r.kind # "ok" \/ r.body = <<>>}

\* lines 41-56
RateLimitCheck ==
    {Outcome(UpdateRateLimit(rl), "none", <<"rate_limit">>, [rate |-> rl],
             UpdateRateLimit(rl), 0) : rl \in RateResponses}

\* line 489 for the arguments at hand
GhStepsOf(args) ==
    GhSteps[[date_or_year |-> TextOf(args[1].text), week |-> WeekArg(args, 2)]]

\* lines 333-339, 405-410 and 515-521 when tt_data is a str: the membership
\* test is a substring test, and subscripting the str raises TypeError
OnText(text, empty, caught) ==
    IF ~MentionsFiles(text) \/ caught
    THEN {Outcome(empty, "none", <<>>, <<>>, KeepRate, 0)}
    ELSE {Outcome(empty, "TypeError", <<>>, <<>>, KeepRate, 0)}

\* line 489 in the functions that load: the ways tt_load_gh can go (for the
\* other functions one way stands for all)
LoadNames == {"tt_load", "get_date", "get_week"}
StepsOf(name, args) ==
    IF name \in LoadNames /\ Len(args) >= Arity[name][1] /\ Len(args) <= Arity[name][2]
    THEN GhStepsOf(args)
    ELSE {GhStep(Outcome(EmptyDict, "none", <<>>,
                         LoadGhEnv(Unused, NoDatasets, Unused, Unused, Unused),
                         KeepRate, 0))}

\* tt.<name>(*args) on the object just constructed, tt_load_gh going as `g`
MethodOutcomes(name, args, g) ==
    CASE name = "last_tuesday" ->
            {Outcome(LastTuesday(d).result, LastTuesday(d).raised, <<>>, <<>>, KeepRate, 0)
             : d \in DateArg(args)}
      [] name = "tt_available" ->
            UNION {TtAvailableWith(rl, root) : rl \in RateResponses, root \in FunctionRoots}
      [] name = "tt_datasets" -> NestedDatasets[TextOf(args[1].text)[1]]
      [] name = "tt_load_gh" ->
            {Outcome(s.result, s.raised, s.reqs, <<>>, s.rate, 0) : s \in GhStepsOf(args)}
      [] name = "tt_download_file" ->
            IF args[1].type = "dict"
            THEN TtDownloadFile(DataOf(args[1]), IdentifierArg(args[2]))
            ELSE OnText(args[1].text, EmptyTable, FALSE)
      [] name = "tt_download" ->
            IF args[1].type = "dict"
            THEN TtDownload(DataOf(args[1]), FilesArg(args, 2))
            ELSE OnText(args[1].text, EmptyDict, TRUE)
      [] name = "readme" ->
            IF args[1].type = "dict"
            THEN {Readme(DataOf(args[1]), write) : write \in {"ok", "OSError"}}
            ELSE {Readme(EmptyDict, "ok")}
      [] name = "rate_limit_check" -> RateLimitCheck
      [] name \in LoadNames -> TtLoadAfter(g, FilesArg(args, 3))

\* the constructor's answer, once a later check of the call has replaced
\* the counter it left
Overwritten == [kind |-> "overwritten", body |-> <<>>]

\* lines 24-27 and 561-627: the call binds its arguments (TypeError if
\* their number is wrong), constructs the object, which checks the budget,
\* and calls the method
FunctionOutcomes(name, args, g) ==
    IF Len(args) < Arity[name][1] \/ Len(args) > Arity[name][2]
    THEN {Outcome(<<>>, "TypeError", <<>>, <<>>, KeepRate, 0)}
    ELSE {Outcome(o.result, o.raised, <<"rate_limit">> \o o.reqs,
                  [init |-> IF o.rate = KeepRate THEN init ELSE Overwritten, method |-> o.env],
                  IF o.rate = KeepRate THEN UpdateRateLimit(init) ELSE o.rate, o.leaked)
          : init \in RateResponses, o \in MethodOutcomes(name, args, g)}

----------------------------------------------------------------------------
(* cli: the command line.  argv[1] is the program's name.                  *)

\* lines 789 and 836: cmd.replace('_', '-')
Dashed ==
    [last_tuesday |-> "last-tuesday", tt_available |-> "tt-available",
     tt_datasets |-> "tt-datasets", tt_load_gh |-> "tt-load-gh",
     tt_download_file |-> "tt-download-file", tt_download |-> "tt-download",
     tt_load |-> "tt-load", readme |-> "readme",
     rate_limit_check |-> "rate-limit-check", get_date |-> "get-date",
     get_week |-> "get-week"]

\* lines 821-837: the keys of `commands` (and of `help_text`)
CommandNames == FunctionNames \cup {Dashed[n] : n \in FunctionNames}

\* commands[cmd]
FunctionOf(cmd) ==
    IF cmd \in FunctionNames THEN cmd ELSE CHOOSE n \in FunctionNames : Dashed[n] = cmd

\* the texts of arguments that are all str
Texts(args) == [i \in 1..Len(args) |-> args[i].text]
AllStr(args) == \A i \in 1..Len(args) : args[i].type = "str"

\* the words after a command: those of the calls above, those followed by
\* --help, --help first, and too many
ArgLists(name) ==
    LET texts == {Texts(f.args) : f \in {c \in FunctionCalls : c.name = name /\ AllStr(c.args)}}
    IN  texts
        \cup {Append(t, "--help") : t \in {x \in texts : Len(x) = 1}}
        \cup {<<>>, <<"--help">>, <<"--help", "2025">>, <<"2025", "1", "All", "2025">>}

Argvs ==
    {<<"pydytuesday">>, <<"pydytuesday", "bogus">>, <<"pydytuesday", "bogus", "--help">>,
     <<"pydytuesday", "--help">>}
    \cup UNION {{<<"pydytuesday", cmd>> \o t : t \in ArgLists(FunctionOf(cmd))}
                : cmd \in CommandNames}

\* what the process prints besides the command's own output: the kind of
\* message, the command it names, the option it suggests
Message(kind, command, hint) == [kind |-> kind, command |-> command, hint |-> hint]

\* the end of the process
Exit(code, message, value, raised, o) ==
    Outcome([exit |-> code, message |-> message, value |-> value], raised,
            o.reqs, o.env, o.rate, o.leaked)

NoOutcome == Outcome(<<>>, "none", <<>>, <<>>, KeepRate, 0)

\* line 842, and the words as the str arguments they are
RECURSIVE WithoutHelp(_)
WithoutHelp(words) ==
    IF words = <<>> THEN <<>>
    ELSE IF Head(words) = "--help" THEN WithoutHelp(Tail(words))
    ELSE <<StrValue(Head(words))>> \o WithoutHelp(Tail(words))

\* as Finish, but a TypeError ends the process like a success
FinishIgnoringTypeError(cmd, o) ==
    IF o.raised = "TypeError"
    THEN Exit(0, Message("arguments", cmd, "--help"), <<>>, "none", o)
    ELSE IF o.raised # "none"
    THEN Exit(1, Message("traceback", cmd, ""), <<>>, o.raised, o)
    ELSE Exit(0, Message("none", cmd, ""), o.result, "none", o)

\* lines 839-851: the command has run as `o`
Finish(cmd, o) ==
    IF o.raised = "TypeError"
    THEN Exit(1, Message("arguments", cmd, "--help"), <<>>, "none", o)
    ELSE IF o.raised # "none"
    THEN Exit(1, Message("traceback", cmd, ""), <<>>, o.raised, o)
    ELSE Exit(0, Message("none", cmd, ""), o.result, "none", o)

\* the function the command line runs, if it runs one, and its arguments
Runs(argv) ==
    /\ Len(argv) >= 2
    /\ argv[2] \in CommandNames
    /\ ~(Len(argv) > 2 /\ argv[3] = "--help")

CliSteps(argv) ==
    IF Runs(argv)
    THEN StepsOf(FunctionOf(argv[2]), WithoutHelp(Tail(Tail(argv))))
    ELSE StepsOf("cli", <<>>)

\* lines 792-857: every way the process can go, tt_load_gh going as `g`
Cli(argv, g) ==
    IF Len(argv) < 2
    THEN {Exit(1, Message("usage", "", "--help"), <<>>, "none", NoOutcome)}
    ELSE IF Len(argv) > 2 /\ argv[3] = "--help" /\ argv[2] \in CommandNames
    THEN {Exit(0, Message("help", argv[2], ""), <<>>, "none", NoOutcome)}
    ELSE IF argv[2] \in CommandNames
    THEN {Finish(argv[2], o)
          : o \in FunctionOutcomes(FunctionOf(argv[2]), WithoutHelp(Tail(Tail(argv))), g)}
    ELSE {Exit(1, Message("unknown", argv[2], "--help"), <<>>, "none", NoOutcome)}

----------------------------------------------------------------------------
(* The object and its callers.                                             *)

NoCall == [op |-> "none", arg |-> <<>>, env |-> <<>>, reqs |-> <<>>,
           result |-> <<>>, raised |-> "none"]

RateValues == {NoneVal} \cup 0..MaxRemaining

\* __init__ has run: the counter holds what the first check left
Init ==
    /\ pc = "idle"
    /\ rate_limit_remaining \in RateValues
    /\ staging = 0
    /\ call = NoCall

\* one call of a method: `outcomes` is every way it can go from here
Returns(op, arg, outcomes) ==
    /\ \E o \in outcomes :
         /\ call' = [op |-> op, arg |-> arg, env |-> o.env, reqs |-> o.reqs,
                     result |-> o.result, raised |-> o.raised]
         /\ rate_limit_remaining' =
                IF o.rate = KeepRate THEN rate_limit_remaining ELSE o.rate
         /\ staging' = staging + o.leaked
    /\ pc' = "done"

\* the object is not in a call, and the disk is not yet littered
Callable == pc = "idle" /\ staging <= MaxLeaked

CallLastTuesday ==
    /\ Callable
    /\ \E date \in LastTuesdayArgs :
         Returns("last_tuesday", date,
                 {Outcome(LastTuesday(date).result, LastTuesday(date).raised,
                          <<>>, <<>>, KeepRate, 0)})

CallTtDatasets ==
    /\ Callable
    /\ \E year \in Years, p \in DatasetsPaths :
         Returns("tt_datasets", year, TtDatasetsWith(year, p[1], p[2], p[3]))

CallTtAvailable ==
    /\ Callable
    /\ \E rl \in RateResponses, root \in RootListings :
         Returns("tt_available", <<>>, TtAvailableWith(rl, root))

CallTtLoadGh ==
    /\ Callable
    /\ \E arg \in LoadGhArgs, rl \in RateResponses :
         \E o \in NestedFor(arg, rl) :
            Returns("tt_load_gh", arg, TtLoadGhWith(arg, rl, o))

CallTtDownloadFile ==
    /\ Callable
    /\ \E tt_data \in TtDataValues, id \in FileIdentifiers :
         Returns("tt_download_file", [tt_data |-> tt_data, file_identifier |-> id],
                 TtDownloadFile(tt_data, id))

CallTtDownload ==
    /\ Callable
    /\ \E tt_data \in TtDataValues, files \in FilesArgs :
         Returns("tt_download", [tt_data |-> tt_data, files |-> files],
                 TtDownload(tt_data, files))

CallTtLoad ==
    /\ Callable
    /\ \E arg \in LoadArgs :
         \E g \in GhSteps[GhArg(arg)] :
            Returns("tt_load", arg, TtLoadAfter(g, arg.files))

\* a module-level function is called; the object whose counter
\* rate_limit_remaining is from then on is the one the function constructed
CallFunction(name) ==
    \E f \in FunctionCalls :
         /\ f.name = name
         /\ \E g \in StepsOf(name, f.args) :
               Returns(FunctionOp[name], f.args, FunctionOutcomes(name, f.args, g))

last_tuesday ==
    /\ Callable
    /\ CallFunction("last_tuesday")

tt_available ==
    /\ Callable
    /\ CallFunction("tt_available")

tt_datasets ==
    /\ Callable
    /\ CallFunction("tt_datasets")

tt_load_gh ==
    /\ Callable
    /\ CallFunction("tt_load_gh")

tt_download_file ==
    /\ Callable
    /\ CallFunction("tt_download_file")

tt_download ==
    /\ Callable
    /\ CallFunction("tt_download")

tt_load ==
    /\ Callable
    /\ CallFunction("tt_load")

readme ==
    /\ Callable
    /\ CallFunction("readme")

rate_limit_check ==
    /\ Callable
    /\ CallFunction("rate_limit_check")

get_date ==
    /\ Callable
    /\ CallFunction("get_date")

get_week ==
    /\ Callable
    /\ CallFunction("get_week")

\* the command line is run, in a process of its own
cli ==
    /\ Callable
    /\ \E argv \in Argvs :
         \E g \in CliSteps(argv) :
            Returns("cli", argv, Cli(argv, g))

CallReadme ==
    /\ Callable
    /\ \E tt_data \in ReadmeArgs, write \in {"ok", "OSError"} :
         Returns("readme", tt_data, {Readme(tt_data, write)})

\* the caller takes the returned value (or the exception) and goes on
Return ==
    /\ pc = "done"
    /\ pc' = "idle"
    /\ call' = NoCall
    /\ UNCHANGED <<rate_limit_remaining, staging>>

Next ==
    \/ CallLastTuesday
    \/ CallTtDatasets
    \/ CallTtAvailable
    \/ CallTtLoadGh
    \/ CallTtDownloadFile
    \/ CallTtDownload
    \/ CallTtLoad
    \/ CallReadme
    \/ last_tuesday
    \/ tt_available
    \/ tt_datasets
    \/ tt_load_gh
    \/ tt_download_file
    \/ tt_download
    \/ tt_load
    \/ readme
    \/ rate_limit_check
    \/ get_date
    \/ get_week
    \/ cli
    \/ Return

Spec == Init /\ [][Next]_vars

----------------------------------------------------------------------------
(* Properties of last_tuesday.                                             *)

\* 2025-03-11 is a Tuesday and 2025-03-10 the Monday that starts its ISO
\* week: the weekday and the ISO week of any day follow from its distance
\* to them
KnownTuesday == ToOrdinal(2025, 3, 11)
KnownMonday == ToOrdinal(2025, 3, 10)
IsTuesday(ord) == (ord - KnownTuesday) % 7 = 0
IsMonday(ord) == (ord - KnownMonday) % 7 = 0
IsoWeek(ord) == (ord - KnownMonday) \div 7

\* a call of last_tuesday with a valid reference date has returned or raised
ValidDateCall ==
    /\ pc = "done"
    /\ call.op = "last_tuesday"
    /\ call.arg.type \in {"none", "str", "datetime"}
    /\ StrptimeOk(call.arg.text)

RefDay == Strptime(call.arg.text)
FirstDay == <<1, 1, 1>>

\* what C1 says of one call: the result is the reference date minus
\* ((weekday - 1) mod 7) days, a Tuesday, not after the reference date, at
\* most 6 days before it, the date itself on a Tuesday, and a fixed point
LastTuesdayContract ==
    /\ call.raised = "none"
    /\ StrptimeOk(call.result)
    /\ LET r == ToOrdinal(call.result[1], call.result[2], call.result[3])
       IN  /\ r = RefDay - ((RefDay - KnownTuesday) % 7)
           /\ IsTuesday(r)
           /\ r <= RefDay
           /\ RefDay - r <= 6
           /\ (IsTuesday(RefDay) => call.result = call.arg.text)
           /\ LastTuesday([type |-> "str", text |-> call.result]).result = call.result

\* C1 as stated: for every valid reference date d, last_tuesday(d) returns
\* d minus ((weekday(d) - 1) mod 7) days, a Tuesday never after d and at most
\* 6 days before d, equal to d when d is a Tuesday, and a fixed point of
\* last_tuesday.
C1_Original == ValidDateCall => LastTuesdayContract

\* C1 amended: the same for every valid reference date other than
\* 0001-01-01, a Monday whose preceding Tuesday lies before the first day of
\* the calendar; there last_tuesday raises OverflowError.
C1_LastTuesday ==
    ValidDateCall =>
        IF call.arg.text = FirstDay
        THEN call.raised = "OverflowError"
        ELSE LastTuesdayContract

\* a Sunday has been resolved to the Tuesday five days before it, in the
\* previous month
C1_Witness ==
    /\ ValidDateCall
    /\ call.arg = [type |-> "str", text |-> <<2024, 3, 3>>]
    /\ call.raised = "none"
    /\ call.result = <<2024, 2, 27>>

----------------------------------------------------------------------------
(* Properties of tt_datasets and tt_available.                             *)

DatasetsCall == pc = "done" /\ call.op = "tt_datasets"
AvailableCall == pc = "done" /\ call.op = "tt_available"

Requested(kind) == \E i \in 1..Len(call.reqs) : call.reqs[i] = kind

\* the page Tier 1 ended with: master's answer if master was asked
Tier1Page == IF call.env.master.kind = "unused" THEN call.env.main ELSE call.env.master

\* the rows of that page's first table that count: behind the header row,
\* with at least 3 cells and a release date in cell 1
ValidRowIndices ==
    IF Tier1Page.kind # "ok" \/ Tier1Page.body = <<>> THEN {}
    ELSE {i \in 2..Len(Tier1Page.body[1]) :
            /\ Len(Tier1Page.body[1][i]) >= 3
            /\ Tier1Page.body[1][i][2] \in ReleaseDates}

\* the directories of the listing that are named like a release
ReleaseDirs ==
    {i \in 1..Len(call.env.api.body) :
        /\ call.env.api.body[i].type = "dir"
        /\ call.env.api.body[i].name \in ReleaseDates}

\* C3 as stated: the list returned by tt_datasets is sorted ascending by date
\* and no two of its entries have the same date.
C3_Original ==
    DatasetsCall =>
        \A i, j \in 1..Len(call.result) :
            i < j => DateLess(call.result[i].date, call.result[j].date)

\* C3 amended: the list returned by tt_datasets is sorted ascending by date
\* (an entry is never followed by one of an earlier date); two entries have
\* the same date only when they come from Tier 1 and the table holds two
\* valid rows with that date; a Tier 2 result has no two entries of one date.
C3_SortedByDate ==
    DatasetsCall =>
        \A i, j \in 1..Len(call.result) :
            i < j =>
                /\ ~DateLess(call.result[j].date, call.result[i].date)
                /\ call.result[i].date = call.result[j].date =>
                      /\ ~Requested("api_year")
                      /\ \E a, b \in ValidRowIndices :
                            /\ a # b
                            /\ Tier1Page.body[1][a][2] = call.result[i].date
                            /\ Tier1Page.body[1][b][2] = call.result[i].date

\* a table that lists the later release first has been returned in date
\* order
C3_Witness ==
    /\ DatasetsCall
    /\ call.env.main = Ok(<<<<<<0, <<>>, "Title">>, <<1, <<2025, 1, 14>>, "A">>,
                            <<1, <<2025, 1, 7>>, "A">>>>>>)
    /\ Len(call.result) = 2
    /\ call.result[1].date = <<2025, 1, 7>>
    /\ call.result[2].date = <<2025, 1, 14>>

C5_BudgetExhausted ==
    ((DatasetsCall \/ AvailableCall) /\ call.env.rate = Ok(0)) =>
        /\ call.result = <<>>
        /\ call.raised = "none"
        /\ call.reqs = <<"rate_limit">>

\* tt_available has returned on an exhausted budget
C5_Witness ==
    /\ AvailableCall
    /\ call.env.rate = Ok(0)
    /\ rate_limit_remaining = 0
    /\ call.result = <<>>

----------------------------------------------------------------------------
(* Properties of tt_load_gh.                                               *)

LoadGhCall == pc = "done" /\ call.op = "tt_load_gh"

\* the week number is known to be out of range: below 1, or above the length
\* of the list tt_datasets returned
WeekIsOutOfRange ==
    /\ call.arg.week.type = "int"
    /\ \/ call.arg.week.n < 1
       \/ /\ call.env.datasets.called
          /\ call.arg.week.n > Len(call.env.datasets.result)

\* C6: tt_load_gh(year, week) with week < 1 or week > len(tt_datasets(year))
\* returns {} and does not raise, whatever the rate-limit counter is (None
\* included) and whatever the remote answers.
C6_WeekOutOfRange ==
    (LoadGhCall /\ WeekIsOutOfRange) =>
        /\ call.result = EmptyDict
        /\ call.raised = "none"

\* C7: tt_load_gh goes past its budget check only when the check reports
\* remaining >= 5; when it reports 0..4 the call returns {} and issues no
\* request after the budget check.
C7_BudgetThreshold ==
    LoadGhCall =>
        /\ call.reqs[1] = "rate_limit"
        /\ (call.env.rate.kind = "ok" /\ call.env.rate.body \in 0..4) =>
              /\ call.result = EmptyDict
              /\ call.raised = "none"
              /\ call.reqs = <<"rate_limit">>
              /\ ~call.env.datasets.called
        /\ (Len(call.reqs) > 1 \/ call.result # EmptyDict) =>
              /\ call.env.rate.kind = "ok"
              /\ call.env.rate.body >= 5

\* a budget of 4 has stopped a call that names a week
C7_Witness ==
    /\ LoadGhCall
    /\ call.env.rate = Ok(4)
    /\ call.arg.week = [type |-> "int", n |-> 1]
    /\ call.result = EmptyDict
    /\ call.reqs = <<"rate_limit">>
    /\ rate_limit_remaining = 4

----------------------------------------------------------------------------
(* Properties of all public methods.                                       *)

\* C8: no public method propagates an exception to its caller; on invalid
\* input, transport failure or parse failure it returns its empty value.
C8_NoException == pc = "done" => call.raised = "none"

----------------------------------------------------------------------------
(* Properties of tt_download_file and tt_download.                         *)

\* C9: after any sequence of calls no staging file created by
\* tt_download_file or tt_download is left on disk.
C9_NoStagingFileLeft == staging = 0

DownloadFileCall == pc = "done" /\ call.op = "tt_download_file"
DownloadCall == pc = "done" /\ call.op = "tt_download"

\* the names whose extension, in any case, is none of .csv .tsv .xls .xlsx
\* .json .parquet; and the .parquet names
UnsupportedNames == {FileName("c", ".xyz"), FileName("g", "")}
ParquetNames == {FileName("b", ".parquet")}

\* file `e` was downloaded and staged: the format dispatch is reached
Staged(e) == e.download = "ok" /\ e.write = "ok"

\* the file tt_download_file was asked for
AskedFile ==
    call.arg.tt_data.files[ResolveIdentifier(call.arg.tt_data.files,
                                             call.arg.file_identifier)]

\* the files tt_download went through
LoopFiles == FilesToDownload(call.arg.tt_data, call.arg.files)

HasEntryFor(name) ==
    \E k \in 1..Len(call.result) : call.result[k][2].file = name

ValidDownloadCall == DownloadCall /\ ~InvalidTtData(call.arg.tt_data)

\* the files of the loop whose format tt_download reads
SupportedIndices ==
    {i \in 1..Len(LoopFiles) : LoopFiles[i].name \notin UnsupportedNames \cup ParquetNames}

\* every file of the loop was downloaded, staged and, if read, parsed
AllFilesSucceed ==
    /\ Len(call.env) = Len(LoopFiles)
    /\ \A i \in 1..Len(call.env) :
          Staged(call.env[i]) /\ call.env[i].parse \in {"ok", "unused"}

\* C11: when every file of the release downloads and parses,
\* tt_download(release, "All") returns exactly one entry per file of a
\* supported format, also when files share a base name, and no entry for a
\* file of an unsupported format.
C11_OneEntryPerSupportedFile ==
    (ValidDownloadCall /\ call.arg.files.type = "all" /\ AllFilesSucceed) =>
        /\ Len(call.result) = Cardinality(SupportedIndices)
        /\ \A i \in 1..Len(LoopFiles) :
              HasEntryFor(LoopFiles[i].name) <=> i \in SupportedIndices

HasKey(key) == \E k \in 1..Len(call.result) : call.result[k][1] = key

\* C12: tt_download handles each selected file on its own: a non-200
\* status, a network exception, an unsupported format or a parse error on
\* one file leaves only that file out; every file is still downloaded, and
\* every file that downloads and parses is in the result.  A name that is
\* not in the release is skipped.
C12_FilesIndependent ==
    (ValidDownloadCall /\ \A i \in 1..Len(call.env) : call.env[i].write # "OSError") =>
        /\ call.raised = "none"
        /\ Len(call.env) = Len(LoopFiles)
        /\ \A i \in 1..Len(call.env) :
              (Staged(call.env[i]) /\ call.env[i].parse = "ok") =>
                  HasKey(LoopFiles[i].name[1])

----------------------------------------------------------------------------
(* Properties of the README requests of tt_load_gh.                        *)

\* the position of the first request of `kind` among the call's requests, 0
\* if there is none
RequestIndex(kind) ==
    IF \E i \in 1..Len(call.reqs) : call.reqs[i] = kind
    THEN CHOOSE i \in 1..Len(call.reqs) :
            call.reqs[i] = kind /\ \A j \in 1..(i - 1) : call.reqs[j] # kind
    ELSE 0

\* C15: once the listing of the release has succeeded, tt_load_gh asks for
\* the README on main first and on master only if main did not succeed; if
\* both fail, by a non-200 status or a network error, it still returns the
\* metadata (date, year, files) with readme_content = "" and a rendered
\* readme_html.
C15_ReadmeFallback ==
    (LoadGhCall /\ call.env.listing.kind = "ok") =>
        /\ RequestIndex("readme_main") = RequestIndex("api_week") + 1
        /\ RequestIndex("readme_master") # 0 =>
              /\ call.env.readme_main.kind # "ok"
              /\ RequestIndex("readme_master") = RequestIndex("readme_main") + 1
        /\ (call.env.readme_main.kind # "ok" /\ call.env.readme_master.kind # "ok") =>
              /\ call.raised = "none"
              /\ call.result # EmptyDict
              /\ DOMAIN call.result =
                    {"date", "year", "files", "readme_content", "readme_html"}
              /\ call.result.readme_content = ""
              /\ call.result.readme_html = <<"<!DOCTYPE html>", "">>

----------------------------------------------------------------------------
(* Properties of tt_load.                                                  *)

TtLoadCall == pc = "done" /\ call.op = "tt_load"

\* the value under `key` in the dict returned
ResultAt(key) ==
    call.result[CHOOSE k \in 1..Len(call.result) : call.result[k][1] = key][2]

\* C17: in every non-empty result of tt_load the entries date, year,
\* readme_content and readme_html are the ones tt_load_gh returned for the
\* release, whatever the files of the release are called.
C17_MetadataKept ==
    (TtLoadCall /\ call.result # EmptyDict) =>
        /\ ResultAt("date") = [value |-> call.env.tt_data.date]
        /\ ResultAt("year") = [value |-> call.env.tt_data.year]
        /\ ResultAt("readme_content") = [value |-> call.env.tt_data.readme_content]
        /\ ResultAt("readme_html") = [value |-> call.env.tt_data.readme_html]

----------------------------------------------------------------------------
(* Properties of the rate-limit counter.                                   *)

\* the public operations as methods of an object, and as functions of the
\* module
CheckingMethods == {"tt_available", "tt_datasets", "tt_load_gh", "tt_load"}
OtherMethods == {"last_tuesday", "tt_download_file", "tt_download", "readme"}
PublicFunctions ==
    {FunctionOp[n] : n \in CheckingMethods \cup OtherMethods}

\* C16 as stated: every call of a public operation, as a method or as a
\* function of the module, starts with a check of the budget of its own.
C16_Original ==
    (pc = "done" /\ call.op \in CheckingMethods \cup OtherMethods \cup PublicFunctions) =>
        /\ call.reqs # <<>>
        /\ call.reqs[1] = "rate_limit"

\* the counter holds what the answer `resp` to a check says
Holds(counter, resp) ==
    IF resp.kind = "ok" THEN counter = resp.body ELSE counter = NoneVal

RateChecks(reqs) == Cardinality({i \in 1..Len(reqs) : reqs[i] = "rate_limit"})

\* C16: the functions of the module, whose constructor checks the budget,
\* and the methods tt_available, tt_datasets, tt_load_gh and tt_load start
\* with a check of the budget, after which the counter is the remote value,
\* or None if the check failed.  The methods last_tuesday, tt_download_file,
\* tt_download and readme make no check and leave the counter as it was.
C16_RefreshWhereCoded ==
    [][(pc = "idle" /\ pc' = "done") =>
        /\ call'.op \in OtherMethods =>
              /\ rate_limit_remaining' = rate_limit_remaining
              /\ RateChecks(call'.reqs) = 0
        /\ call'.op \in CheckingMethods =>
              /\ call'.reqs[1] = "rate_limit"
              /\ (RateChecks(call'.reqs) = 1 /\ call'.op # "tt_load") =>
                    Holds(rate_limit_remaining', call'.env.rate)
              /\ (RateChecks(call'.reqs) = 1 /\ call'.op = "tt_load") =>
                    Holds(rate_limit_remaining', call'.env.budget)
        /\ call'.op \in PublicFunctions =>
              /\ call'.reqs[1] = "rate_limit"
              /\ RateChecks(call'.reqs) = 1 =>
                    Holds(rate_limit_remaining', call'.env.init)
      ]_vars

\* the function tt_download_file has downloaded a file on an object whose
\* only check, the constructor's, was answered with 3
C16_Witness ==
    /\ pc = "done"
    /\ call.op = "pydytuesday.tt_download_file"
    /\ call.reqs = <<"rate_limit", "download">>
    /\ call.env.init = Ok(3)
    /\ rate_limit_remaining = 3

----------------------------------------------------------------------------
(* Properties of the command line.                                         *)

CliCall == pc = "done" /\ call.op = "cli"

\* the process has run the function `name` with `n` arguments
CliRan(name, n) ==
    /\ CliCall
    /\ Runs(call.arg)
    /\ FunctionOf(call.arg[2]) = name
    /\ Len(WithoutHelp(Tail(Tail(call.arg)))) = n

\* the week number on the command line
CliWeek == IntOf(call.arg[4])

\* the budget sufficed, and the week is one of the year's releases
WeekCanBeLoaded(env, week) ==
    /\ env.budget.kind = "ok"
    /\ env.budget.body >= 5
    /\ env.datasets.called
    /\ week \in 1..Len(env.datasets.result)

\* C13: `get_week <year> <week_num>` and `tt_load <year> <week>`, with a
\* week that is one of the year's releases and a sufficient budget, load the
\* release at index week_num of the year's releases, sorted by date, as
\* tt_load(year, week=week_num) with an int does.
C13_CliLoadsWeek ==
    ((CliRan("get_week", 2) \/ CliRan("tt_load", 2))
        /\ WeekCanBeLoaded(call.env.method, CliWeek)) =>
        /\ call.result.exit = 0
        /\ call.result.value # EmptyDict
        /\ call.env.method.tt_data # EmptyDict
        /\ call.env.method.tt_data.date = call.env.method.datasets.result[CliWeek].date

\* the words the command line hands to the function
CliWords == WithoutHelp(Tail(Tail(call.arg)))

\* the number of words is one the function's signature does not take
WrongArity ==
    /\ Runs(call.arg)
    /\ \/ Len(CliWords) < Arity[FunctionOf(call.arg[2])][1]
       \/ Len(CliWords) > Arity[FunctionOf(call.arg[2])][2]

\* `<command> --help` for a command that exists
HelpShown ==
    /\ Len(call.arg) > 2
    /\ call.arg[2] \in CommandNames
    /\ call.arg[3] = "--help"

\* the process ended as it does when the function returned `o` unraised
CompletedAs(o) ==
    /\ o.raised = "none"
    /\ call.reqs = o.reqs
    /\ call.env = o.env
    /\ call.result.value = o.result
    /\ call.result.message.kind = "none"

\* C14: the process exits with 1 when no command is given, when the command
\* is unknown, and when a known command is given a number of arguments its
\* function does not take, in which case the message names the command and
\* suggests --help; it exits with 0 when `<command> --help` is shown for a
\* known command and when the command's function returns without raising.
C14_ExitCodes ==
    CliCall =>
        /\ Len(call.arg) < 2 => call.result.exit = 1
        /\ (Len(call.arg) >= 2 /\ call.arg[2] \notin CommandNames) =>
              call.result.exit = 1
        /\ WrongArity =>
              /\ call.result.exit = 1
              /\ call.result.message = Message("arguments", call.arg[2], "--help")
              /\ call.reqs = <<>>
        /\ HelpShown =>
              /\ call.result.exit = 0
              /\ call.result.message = Message("help", call.arg[2], "")
        /\ (Runs(call.arg) /\ ~WrongArity) =>
              \A g \in CliSteps(call.arg) :
                 \A o \in FunctionOutcomes(FunctionOf(call.arg[2]), CliWords, g) :
                    CompletedAs(o) => call.result.exit = 0

\* get-week was given four arguments instead of two
C14_Witness ==
    /\ CliCall
    /\ call.arg = <<"pydytuesday", "get-week", "2025", "1", "All", "2025">>
    /\ WrongArity
    /\ call.result.exit = 1
    /\ call.result.message.command = "get-week"

====
